---- MODULE Spec2Model ----
(***************************************************************************)
(* Hydroponics sensor programs: the logger (Monitor.cpp) and the three     *)
(* standalone tools (SHT30 with optional MUX, PCT2075 temperature, pH).    *)
(* Each program is a sequential main(); the model has one action per       *)
(* statement of main that touches the bus, the report file or the console, *)
(* and one operator per driver function.  The kernel's answers to open,    *)
(* fopen, ioctl, write and read are the inputs, drawn with \E.             *)
(***************************************************************************)
EXTENDS Integers, Sequences, FiniteSets, TLC

\* ------------------------------------------------------------------ bounds

\* Number of times the logger's for(;;) loop is allowed to come round again.
MaxCycles == 1

\* ------------------------------------------------------- program constants

PCT2075_ADDR == 55      \* 0x37
ADC_ADDR == 72          \* 0x48
SHT30_ADDR == 68        \* 0x44
MUX_ADDR == 112         \* 0x70
FIRST_PORT == 0
LAST_PORT == 3
US_IN_MS == 1000

\* The handle is bound to no address until the first I2C_SLAVE ioctl.
NoAddr == 0

\* ------------------------------------------------------------------ inputs

\* open("/dev/i2c-1"): -1 on error, otherwise the lowest free descriptor
\* (0 when the process was started with stdin closed, 3 normally).
OpenResults == {-1, 0, 3}

\* ioctl(fd, I2C_SLAVE, addr): 0, or -1 on error.
IoctlResults == {-1, 0}

\* write(fd, buf, n): -1 on error (the device does not acknowledge), or n.
WriteResults(n) == {-1, n}

\* read(fd, buf, n): a short count, or n.  (An error return of -1 takes the
\* same branch of every driver as a short count: got != n.)
ReadResults(n) == {n - 1, n}

\* Response bytes the devices may return.
TempBufs == { <<25, 0>> }
PhBufs == { <<128, 0, 0, 0>>, <<140, 1, 2, 3>> }
ShtBufs == { <<100, 7, 9, 39, 210, 5>> }

\* ------------------------------------------------------------ output text

\* Text is a sequence of tokens.  A token is a piece of text written by one
\* conversion of a printf format: a literal, or a number as printed.
\*   k = "sep"  a comma           k = "nl"   a newline
\*   k = "txt"  literal text s    k = "num"  a number: v / 10^d, d decimals,
\*                                           with a minus sign when neg
Sep == [k |-> "sep", s |-> ",", v |-> 0, d |-> 0, neg |-> FALSE]
Nl == [k |-> "nl", s |-> "\n", v |-> 0, d |-> 0, neg |-> FALSE]
Txt(s) == [k |-> "txt", s |-> s, v |-> 0, d |-> 0, neg |-> FALSE]
Num(neg, v, d) == [k |-> "num", s |-> "", v |-> v, d |-> d, neg |-> neg]

Abs(x) == IF x < 0 THEN -x ELSE x

\* n / d rounded to the nearest integer, ties to even (d > 0): what printf
\* does with the exact binary value, and what a float store does.
RoundEven(n, d) ==
    LET q == n \div d
        r == n - q * d
    IN  IF 2 * r < d THEN q
        ELSE IF 2 * r > d THEN q + 1
        ELSE IF q % 2 = 0 THEN q ELSE q + 1

\* An integer stored in a float: exact below 2^24, else rounded to a
\* multiple of 2 (all values here are below 2^25).
ToFloat24(x) == IF Abs(x) < 16777216 THEN x ELSE 2 * RoundEven(x, 2)

\* "%1.Nf" of the value num / den (den > 0).
Fmt(num, den, decs) ==
    LET scale == IF decs = 1 THEN 10 ELSE 100
        r == RoundEven(num * scale, den)
    IN  Num(num < 0, Abs(r), decs)

\* "%d".
NumD(x) == Num(x < 0, Abs(x), 0)

\* "%u" of an int: the value modulo 2^32, carried as its two 16-bit halves
\* (v the high half, d the low half).
NumU32(x) ==
    [k |-> "num", s |-> "u32", v |-> (x \div 65536) % 65536, d |-> x % 65536,
     neg |-> FALSE]

\* ------------------------------------------------------------ conversions

\* A driver that puts the response bytes together low byte first.
PctRawLowFirst(buf) == buf[2] * 256 + buf[1]

\* PCT2075: raw = (buffer[0] << 8) | buffer[1]; cTemp = raw / 256.0, exact in
\* a float.
PctRaw(buf) == buf[1] * 256 + buf[2]

PctC(buf) == Fmt(PctRaw(buf), 256, 1)

\* fTemp = (cTemp * 9.0 / 5.0) + 32 = (9 raw + 40960) / 1280, stored in a
\* float: 24 significant bits, so m / (256 p) with p = 2^(e-8) chosen by the
\* binade of the value (32 <= fTemp < 512).
PctFBinade(buf) ==
    LET N == 9 * PctRaw(buf) + 40960
    IN  IF N < 81920 THEN 1024
        ELSE IF N < 163840 THEN 512
        ELSE IF N < 327680 THEN 256 ELSE 128

\* The float's significand: fTemp = PctFMant / (256 PctFBinade).
PctFMant(buf) == RoundEven((9 * PctRaw(buf) + 40960) * PctFBinade(buf), 5)

PctF(buf) == Fmt(PctFMant(buf), 256 * PctFBinade(buf), 1)

\* SHT30: temp = buffer[0] * 256 + buffer[1], held in a float.
ShtRawTemp(buf) == buf[1] * 256 + buf[2]

ShtRawHum(buf) == buf[4] * 256 + buf[5]

\* cTemp = -45 + (175 * temp / 65536.0); 175 * temp < 2^24 is exact.
ShtC(buf) == Fmt(175 * ShtRawTemp(buf) - 45 * 65536, 65536, 2)

\* fTemp = -49 + (315 * temp / 65536.0); 315 * temp is a float product and
\* the sum is stored in a float.
ShtF(buf) ==
    Fmt(ToFloat24(ToFloat24(315 * ShtRawTemp(buf)) - 49 * 65536), 65536, 2)

\* humidity = 100 * (buffer[3] * 256 + buffer[4]) / 65536.0
ShtH(buf) == Fmt(100 * ShtRawHum(buf), 65536, 2)

\* pH: the constants of the source in fixed point.
SENSOR_VOLTAGE_E6 == 3300000
CONSTANT_E8 == -1918518519
OFFSET_E6 == 41027407

\* A conversion that takes the ADC's full scale for 256 steps.
VoltageE6Of256(raw) == RoundEven(raw * SENSOR_VOLTAGE_E6, 256)

\* voltage = raw * (SENSOR_VOLTAGE / 255), in microvolts.
VoltageE6(raw) == RoundEven(raw * SENSOR_VOLTAGE_E6, 255)

\* ph = CONSTANT * voltage + OFFSET, in millionths.  The product is formed
\* from the decimal digits of CONSTANT (19 + .185 + .000185 + .00000019) so
\* that every intermediate stays within 32 bits.
PhE6(raw) ==
    LET v == VoltageE6(raw)
        c == Abs(CONSTANT_E8)
        c1 == c \div 100000000
        c2 == (c \div 100000) % 1000
        c3 == (c \div 100) % 1000
        c4 == c % 100
        prod == c1 * v + RoundEven(c2 * v, 1000) + RoundEven(c3 * v, 1000000)
                + RoundEven(c4 * v, 100000000)
    IN  OFFSET_E6 - prod

\* "%1.1f" of ph (the logger).
PhFmt(raw) == Num(PhE6(raw) < 0, Abs(RoundEven(PhE6(raw), 100000)), 1)

\* "%f" of voltage and of ph (the pH tool), carried to 4 and to 2 decimals.
VoltageFmt(raw) == Num(VoltageE6(raw) < 0, Abs(RoundEven(VoltageE6(raw), 100)), 4)

PhToolFmt(raw) == Num(PhE6(raw) < 0, Abs(RoundEven(PhE6(raw), 10000)), 2)

\* ------------------------------------------------------------ bus history

\* One entry per driver call, per bus operation, per driver return and per
\* usleep, in program order.  op is "call", "ioctl", "write", "read", "done"
\* or "usleep"; drv the driver; addr the address the handle is bound to when
\* the operation is issued (for an ioctl: the address asked for); n the byte
\* count asked for (usleep: the microseconds asked for; call: the port
\* argument); got the result (call: the fd argument; done: the return
\* value); buf the bytes written, or the bytes of a complete read; rep
\* whether a call was given a report sink ("file"), NULL ("null") or has no
\* such parameter ("none"); out and con the text the call wrote to the
\* report and printed on the console (done).
Entry(op, drv, addr, n, got, buf, rep, out, con) ==
    [op |-> op, drv |-> drv, addr |-> addr, n |-> n, got |-> got, buf |-> buf,
     rep |-> rep, out |-> out, con |-> con]

Call(drv, arg, fd, rep) == Entry("call", drv, NoAddr, arg, fd, <<>>, rep, <<>>, <<>>)
Ioctl(drv, addr, got) == Entry("ioctl", drv, addr, 0, got, <<>>, "none", <<>>, <<>>)
Write(drv, addr, bytes, got) ==
    Entry("write", drv, addr, Len(bytes), got, bytes, "none", <<>>, <<>>)
Read(drv, addr, n, got, buf) ==
    Entry("read", drv, addr, n, got, IF got = n THEN buf ELSE <<>>, "none",
          <<>>, <<>>)
Done(drv, ret, out, con) == Entry("done", drv, NoAddr, 0, ret, <<>>, "none", out, con)
Usleep(us) == Entry("usleep", "main", NoAddr, us, 0, <<>>, "none", <<>>, <<>>)

\* pollSHT30 does not return: the process is killed at the end of the call.
Abort(drv, out, con) ==
    Entry("abort", drv, NoAddr, 0, 0, <<>>, "none", out, con)

\* What a driver call does: rep the text it writes to the report, con the
\* text it prints, log its bus history from call to return, bound the
\* address the handle is bound to afterwards, nullw whether it wrote to a
\* NULL report, ret its return value (0 for a void driver).
Result(rep, con, log, bound, nullw, ret) ==
    [rep |-> rep, con |-> con,
     log |-> log \o << Done(log[1].drv, ret, rep, con) >>,
     bound |-> bound, nullw |-> nullw, ret |-> ret, abort |-> FALSE]

\* unsigned char buffer[2]; read(fd, buffer, 6): the read stores bytes 2..5 of
\* the response past the end of buffer, and humidity is computed from
\* buffer[3] and buffer[4].  What the build makes of it: the bytes are read
\* back as stored ("intact"), the slots hold something else by then
\* ("clobbered", with the two bytes found there), or the overwritten stack is
\* detected when the function returns and the process is killed ("abort").
StackBytes == { << 0, 0 >> }

SmashOutcomes ==
    { [kind |-> "intact", bytes |-> <<>>], [kind |-> "abort", bytes |-> <<>>] }
    \cup { [kind |-> "clobbered", bytes |-> s] : s \in StackBytes }

\* Exit status of a process killed by SIGABRT, as its parent sees it.
SIGABRT_STATUS == 134

\* buffer[0..5] as the conversion reads it after the 6-byte read.
Overflowed(buf, ub) ==
    IF ub.kind = "clobbered"
    THEN [buf EXCEPT ![4] = ub.bytes[1], ![5] = ub.bytes[2]]
    ELSE buf

\* The result of a call that printed its values and was killed on return.
Smashed(r, ub) ==
    IF ub.kind = "abort"
    THEN [r EXCEPT !.abort = TRUE,
                   !.log = SubSeq(r.log, 1, Len(r.log) - 1)
                           \o << Abort(r.log[1].drv, r.rep, r.con) >>]
    ELSE r

\* A driver that goes on whatever the address-select returned.
IoctlFailedIgnored(r) == FALSE

\* The tests the drivers make on the kernel's answers.
\* if (ioctl(fd, I2C_SLAVE, addr) < 0)
IoctlFailed(r) == r < 0

\* A driver that takes only an error return for a failure, and so accepts a
\* short count.
ShortOnlyOnError(got, n) == got < 0

\* if ((got = write(fd, buffer, n)) != n), if ((got = read(fd, buffer, n)) != n)
Short(got, n) == got # n

\* A driver that takes the sample from the wrong byte of the response.
PhByteSecond(buf) == buf[2]

\* The byte of the ADC's response that is the sample: buffer[0].
PhByte(buf) == buf[1]

\* fprintf(report, ...): nothing reaches a file through a NULL report.
ToReport(report, text) == IF report = "null" THEN <<>> ELSE text

\* Diagnostics printed on the console.
ErrAcquire == << Txt("Error acquiring sensor") >>
ErrAcquireMux == << Txt("Error acquiring MUX device") >>
ErrWrite == << Txt("Error writing sensor command") >>
ErrWriteMux == << Txt("Error writing command to MUX") >>
ErrWriteGot(got) == << NumD(got), Txt("Error writing sensor command") >>
ErrRead(got) ==
    << Txt("Got"), NumD(got), Txt("as a return code"), Txt("Reading sensor data") >>

\* ------------------------------------------------- the logger's drivers

\* io is the kernel's answer to the call's ioctl, write and read:
\* [sel, wr, rd, buf].

\* static void pollTemp(int fd, FILE *report)
pollTemp(fd, report, bound, io) ==
    LET c == << Call("pollTemp", 0, fd, report) >>
        l1 == c \o << Ioctl("pollTemp", PCT2075_ADDR, io.sel) >>
        l2 == l1 \o << Write("pollTemp", PCT2075_ADDR, << 0 >>, io.wr) >>
        l3 == l2 \o << Read("pollTemp", PCT2075_ADDR, 2, io.rd, io.buf) >>
    IN  IF fd < 0
        THEN Result(ToReport(report, << Txt("PCT_C"), Sep, Txt("PCT_F") >>),
                    <<>>, c, bound, report = "null", 0)
        ELSE IF IoctlFailed(io.sel)
        THEN Result(<<>>, ErrAcquire, l1, bound, FALSE, 0)
        ELSE IF Short(io.wr, 1)
        THEN Result(<<>>, ErrWriteGot(io.wr), l2, PCT2075_ADDR, FALSE, 0)
        ELSE IF Short(io.rd, 2)
        THEN Result(<<>>, ErrRead(io.rd), l3, PCT2075_ADDR, FALSE, 0)
        ELSE Result(ToReport(report, << PctC(io.buf), Sep, PctF(io.buf) >>),
                    <<>>, l3, PCT2075_ADDR, report = "null", 0)

\* A pollPH that formats and writes the value whatever its report argument.
HasReportAlways(report) == TRUE

\* pollPH, line 281: if (report != NULL)
HasReport(report) == report # "null"

\* static void pollPH(int fd, FILE *report)
pollPH(fd, report, bound, io) ==
    LET c == << Call("pollPH", 0, fd, report) >>
        l1 == c \o << Ioctl("pollPH", ADC_ADDR, io.sel) >>
        l2 == l1 \o << Write("pollPH", ADC_ADDR, << 0, 0 >>, io.wr) >>
        l3 == l2 \o << Read("pollPH", ADC_ADDR, 4, io.rd, io.buf) >>
    IN  IF fd < 0
        THEN Result(ToReport(report, << Txt("pH") >>),
                    <<>>, c, bound, report = "null", 0)
        ELSE IF IoctlFailed(io.sel)
        THEN Result(<<>>, ErrAcquire, l1, bound, FALSE, 0)
        ELSE IF Short(io.wr, 2)
        THEN Result(<<>>, ErrWriteGot(io.wr), l2, ADC_ADDR, FALSE, 0)
        ELSE IF Short(io.rd, 4)
        THEN Result(<<>>, ErrRead(io.rd), l3, ADC_ADDR, FALSE, 0)
        ELSE IF HasReport(report)
        THEN Result(ToReport(report, << PhFmt(PhByte(io.buf)) >>),
                    <<>>, l3, ADC_ADDR, report = "null", 0)
        ELSE Result(<<>>, <<>>, l3, ADC_ADDR, FALSE, 0)

\* static void pollSHT30(int fd, FILE *report)
pollSHT30(fd, report, bound, io) ==
    LET c == << Call("pollSHT30", 0, fd, report) >>
        l1 == c \o << Ioctl("pollSHT30", SHT30_ADDR, io.sel) >>
        l2 == l1 \o << Write("pollSHT30", SHT30_ADDR, << 44, 6 >>, io.wr) >>
        l3 == l2 \o << Read("pollSHT30", SHT30_ADDR, 6, io.rd, io.buf) >>
        b == Overflowed(io.buf, io.ub)
    IN  IF fd < 0
        THEN Result(ToReport(report,
                        << Txt("TempC"), Sep, Txt("TempF"), Sep, Txt("Humidity") >>),
                    <<>>, c, bound, report = "null", 0)
        ELSE IF IoctlFailed(io.sel)
        THEN Result(<<>>, ErrAcquire, l1, bound, FALSE, 0)
        ELSE IF Short(io.wr, 2)
        THEN Result(<<>>, ErrWrite, l2, SHT30_ADDR, FALSE, 0)
        ELSE IF Short(io.rd, 6)
        THEN Result(<<>>, ErrRead(io.rd), l3, SHT30_ADDR, FALSE, 0)
        ELSE Smashed(Result(ToReport(report,
                                << ShtC(b), Sep, ShtF(b), Sep, ShtH(b), Txt("%") >>),
                            <<>>, l3, SHT30_ADDR, report = "null", 0),
                     io.ub)

\* ------------------------------------------------- the tools' drivers

\* A select that sends the port's number instead of its bit.
MuxDataPortNumber(port) == port

\* unsigned char data; data = 1 << port;
MuxData(port) == (2 ^ port) % 256

\* static int selectMUXport(int fd, int port)
selectMUXport(fd, port, bound, io) ==
    LET c == << Call("selectMUXport", port, fd, "none") >>
        data == MuxData(port)
        l1 == c \o << Ioctl("selectMUXport", MUX_ADDR, io.sel) >>
        l2 == l1 \o << Write("selectMUXport", MUX_ADDR, << data >>, io.wr) >>
    IN  IF IoctlFailed(io.sel)
        THEN Result(<<>>, ErrAcquireMux, l1, bound, FALSE, -1)
        ELSE IF Short(io.wr, 1)
        THEN Result(<<>>, ErrWriteMux, l2, MUX_ADDR, FALSE, -1)
        ELSE Result(<<>>, <<>>, l2, MUX_ADDR, FALSE, 0)

\* static int pollSHT30(int fd), of the SHT30 tool.
pollSHT30_tool(fd, bound, io) ==
    LET c == << Call("pollSHT30", 0, fd, "none") >>
        l1 == c \o << Ioctl("pollSHT30", SHT30_ADDR, io.sel) >>
        l2 == l1 \o << Write("pollSHT30", SHT30_ADDR, << 44, 6 >>, io.wr) >>
        l3 == l2 \o << Read("pollSHT30", SHT30_ADDR, 6, io.rd, io.buf) >>
        b == Overflowed(io.buf, io.ub)
    IN  IF IoctlFailed(io.sel)
        THEN Result(<<>>, ErrAcquire, l1, bound, FALSE, -1)
        ELSE IF Short(io.wr, 2)
        THEN Result(<<>>, ErrWrite, l2, SHT30_ADDR, FALSE, -1)
        ELSE IF Short(io.rd, 6)
        THEN Result(<<>>, ErrRead(io.rd), l3, SHT30_ADDR, FALSE, -1)
        ELSE Smashed(Result(<<>>,
                            << Txt("Temp:"), ShtC(b), Txt("C"), Sep, ShtF(b),
                               Txt("F"), Sep, Txt("humidity"), ShtH(b), Txt("%"),
                               Nl >>,
                            l3, SHT30_ADDR, FALSE, 0),
                     io.ub)

\* static void pollTemp(int fd), of the temperature tool.
pollTemp_tool(fd, bound, io) ==
    LET c == << Call("pollTemp", 0, fd, "none") >>
        l1 == c \o << Ioctl("pollTemp", PCT2075_ADDR, io.sel) >>
        l2 == l1 \o << Write("pollTemp", PCT2075_ADDR, << 0 >>, io.wr) >>
        l3 == l2 \o << Read("pollTemp", PCT2075_ADDR, 2, io.rd, io.buf) >>
    IN  IF IoctlFailed(io.sel)
        THEN Result(<<>>, ErrAcquire, l1, bound, FALSE, 0)
        ELSE IF Short(io.wr, 1)
        THEN Result(<<>>, ErrWriteGot(io.wr), l2, PCT2075_ADDR, FALSE, 0)
        ELSE IF Short(io.rd, 2)
        THEN Result(<<>>, ErrRead(io.rd), l3, PCT2075_ADDR, FALSE, 0)
        ELSE Result(<<>>,
                    << PctC(io.buf), Txt("C"), Sep, PctF(io.buf), Txt("F"), Nl >>,
                    l3, PCT2075_ADDR, FALSE, 0)

\* static int pollPH(int fd), of the pH tool: returns buffer[0], or -1.
pollPH_tool(fd, bound, io) ==
    LET c == << Call("pollPH", 0, fd, "none") >>
        l1 == c \o << Ioctl("pollPH", ADC_ADDR, io.sel) >>
        l2 == l1 \o << Write("pollPH", ADC_ADDR, << 0, 0 >>, io.wr) >>
        l3 == l2 \o << Read("pollPH", ADC_ADDR, 4, io.rd, io.buf) >>
    IN  IF IoctlFailed(io.sel)
        THEN Result(<<>>, ErrAcquire, l1, bound, FALSE, -1)
        ELSE IF Short(io.wr, 2)
        THEN Result(<<>>, ErrWriteGot(io.wr), l2, ADC_ADDR, FALSE, -1)
        ELSE IF Short(io.rd, 4)
        THEN Result(<<>>, ErrRead(io.rd), l3, ADC_ADDR, FALSE, -1)
        ELSE Result(<<>>, <<>>, l3, ADC_ADDR, FALSE, PhByte(io.buf))

\* ------------------------------------------------------------------ state

VARIABLES
    prog,        \* which main() runs: "logger", "sht30", "temp" or "ph"
    useMux,      \* whether the SHT30 tool is built with USE_MUX
    pc,          \* the statement main() is at
    i2cfd,       \* main's i2cfd
    exitStatus,  \* the argument of exit(), -1 while the process runs
    file,        \* the text of the report file
    report,      \* main's report: "none" (not assigned), "null" or "file"
    console,     \* the text printed on stdout (the logger: since the cycle began)
    busLog,      \* the bus history (the logger: since the cycle began)
    bound,       \* the address the handle is bound to
    muxReg,      \* the channel byte the MUX last accepted
    cycle,       \* how many times the logger's loop has come round
    port,        \* the SHT30 tool's loop variable
    raw,         \* the pH tool's raw
    nullWrites   \* how many driver calls have written to a NULL report

vars ==
    << prog, useMux, pc, i2cfd, exitStatus, file, report, console, busLog,
       bound, muxReg, cycle, port, raw, nullWrites >>

Progs == {"logger", "sht30", "temp", "ph"}

\* The kernel is not asked anything by a call that only writes column names.
NoIo == [sel |-> 0, wr |-> 0, rd |-> 0, buf |-> <<>>]

\* The three header calls of startup: each driver with a negative fd.
HeaderCalls ==
    << pollTemp(-1, "file", NoAddr, NoIo), pollPH(-1, "file", NoAddr, NoIo),
       pollSHT30(-1, "file", NoAddr, NoIo) >>

\* The header line, as startup writes it.
HeaderLine ==
    << Txt("Date"), Sep, Txt("Time"), Sep, Txt("epoch"), Sep >>
    \o HeaderCalls[1].rep \o << Sep >> \o HeaderCalls[2].rep \o << Sep >>
    \o HeaderCalls[3].rep \o << Nl >>

\* The start of a record line: "%02d/%02d/%04d,%02d:%02d:%02d,%lu," of the
\* current time.
Timestamp ==
    << Txt("MM/DD/YYYY"), Sep, Txt("HH:MM:SS"), Sep, Txt("epoch-seconds"), Sep >>

\* The report file before the program starts: missing or empty, or left by
\* an earlier run that wrote the header.
InitialFiles == { <<>>, HeaderLine }

Init ==
    /\ prog \in Progs
    /\ useMux \in BOOLEAN
    /\ (prog # "sht30" => useMux = FALSE)
    /\ pc = "open"
    /\ i2cfd = -1
    /\ exitStatus = -1
    /\ file \in InitialFiles
    /\ (prog # "logger" => file = <<>>)
    /\ report = "none"
    /\ console = <<>>
    /\ busLog = <<>>
    /\ bound = NoAddr
    /\ muxReg = 0
    /\ cycle = 0
    /\ port = FIRST_PORT
    /\ raw = 0
    /\ nullWrites = 0

\* The kernel's possible answers to one driver call that writes nw bytes and
\* reads nr: one answer per operation the call can issue.  An operation
\* that is not issued (it follows a failed one) has no answer to vary, so
\* its entry is fixed.
IoSet(nw, nr, bufs) ==
    LET b0 == CHOOSE b \in bufs : TRUE
    IN  { io \in [sel : IoctlResults, wr : WriteResults(nw),
                  rd : ReadResults(nr), buf : bufs] :
            /\ (io.sel < 0 => io.wr = nw)
            /\ (io.sel < 0 \/ io.wr # nw => io.rd = nr)
            /\ (io.sel < 0 \/ io.wr # nw \/ io.rd # nr => io.buf = b0) }

\* The same for pollSHT30, with what becomes of its overflowing read; a
\* read that is not issued or comes back short has nothing to vary there.
ShtIoSet ==
    LET answers == { p \in IoSet(2, 6, ShtBufs) \X SmashOutcomes :
                       (p[1].sel < 0 \/ p[1].wr # 2 \/ p[1].rd # 6)
                           => p[2].kind = "intact" }
    IN  { [sel |-> p[1].sel, wr |-> p[1].wr, rd |-> p[1].rd, buf |-> p[1].buf,
           ub |-> p[2]] : p \in answers }

\* The MUX's channel byte after a driver call: a complete one-byte write to
\* the MUX replaces it.
MuxAfter(log) ==
    LET w == { i \in 1..Len(log) :
                 log[i].op = "write" /\ log[i].addr = MUX_ADDR /\ log[i].got = log[i].n }
    IN  IF w = {} THEN muxReg ELSE log[CHOOSE i \in w : TRUE].buf[1]

\* The state after a driver call with result r, followed by writing text
\* `after` to the report, apart from pc.
Apply(r, after) ==
    /\ file' = file \o r.rep \o after
    /\ console' = console \o r.con
    /\ busLog' = busLog \o r.log
    /\ bound' = r.bound
    /\ muxReg' = MuxAfter(r.log)
    /\ nullWrites' = nullWrites + (IF r.nullw THEN 1 ELSE 0)

\* The report file as it is on disk while a record is being written: stdio
\* holds the unfinished line back until fclose.
OnDisk(f) ==
    LET nls == { i \in 1..Len(f) : f[i] = Nl }
    IN  IF nls = {} THEN <<>>
        ELSE SubSeq(f, 1, CHOOSE i \in nls : \A j \in nls : j <= i)

\* The state after a pollSHT30 that was killed on return: what the call
\* printed is out, what it wrote to the report never reaches the file.
Killed(r) ==
    /\ file' = OnDisk(file)
    /\ console' = console \o r.con
    /\ busLog' = busLog \o r.log
    /\ bound' = r.bound
    /\ muxReg' = MuxAfter(r.log)
    /\ pc' = "exited"
    /\ exitStatus' = SIGABRT_STATUS
    /\ UNCHANGED << report, port, nullWrites >>

\* First statement after a successful open, per program.
FirstPc ==
    IF prog = "logger" THEN "startup"
    ELSE IF prog = "sht30" THEN (IF useMux THEN "muxLoop" ELSE "pollSHT30")
    ELSE IF prog = "temp" THEN "pollTemp"
    ELSE "throwaway"

\* A main that takes only a negative descriptor for a failed open.
BusOpenFailedNegative(fd) == fd < 0

\* if (i2cfd <= 0)
BusOpenFailed(fd) == fd <= 0

\* int i2cfd = open("/dev/i2c-1", O_RDWR); if (i2cfd <= 0) exit(1)
OpenBus ==
    /\ pc = "open"
    /\ \E fd \in OpenResults :
        /\ i2cfd' = fd
        /\ IF BusOpenFailed(fd)
           THEN /\ pc' = "exited"
                /\ exitStatus' = 1
                /\ console' = console \o << Txt("Error opening I2C device") >>
           ELSE /\ pc' = FirstPc
                /\ UNCHANGED << exitStatus, console >>
    /\ UNCHANGED << prog, useMux, file, report, busLog, bound, muxReg, cycle,
                    port, raw, nullWrites >>

\* ------------------------------------------------------------- the logger

\* Monitor.cpp main, lines 119-144: open the report; write the header if
\* the file is empty.  This report is a local of its own, shadowed in the loop.
Startup ==
    /\ pc = "startup"
    /\ \E ok \in BOOLEAN :
        IF ~ok
        THEN /\ console' = console \o << Txt("Error opening report file") >>
             /\ UNCHANGED << file, busLog >>
        ELSE IF Len(file) = 0
        THEN /\ file' = file \o HeaderLine
             /\ busLog' = busLog \o HeaderCalls[1].log \o HeaderCalls[2].log
                                 \o HeaderCalls[3].log
             /\ UNCHANGED console
        ELSE UNCHANGED << file, busLog, console >>
    /\ pc' = "loop"
    /\ UNCHANGED << prog, useMux, i2cfd, exitStatus, report, bound, muxReg,
                    cycle, port, raw, nullWrites >>

\* A loop that goes on to the polls when the report could not be opened.
CycleOpenPollsAnyway ==
    /\ pc = "loop"
    /\ busLog' = <<>>
    /\ \E ok \in BOOLEAN :
        IF ~ok
        THEN /\ report' = "null"
             /\ console' = << Txt("Error opening report file") >>
             /\ pc' = "pollTemp"
             /\ UNCHANGED file
        ELSE /\ report' = "file"
             /\ console' = <<>>
             /\ file' = file \o Timestamp
             /\ pc' = "pollTemp"
    /\ UNCHANGED << prog, useMux, i2cfd, exitStatus, bound, muxReg, cycle,
                    port, raw, nullWrites >>

\* Lines 150-163: open the report for this cycle and write the timestamp.
CycleOpen ==
    /\ pc = "loop"
    /\ busLog' = <<>>
    /\ \E ok \in BOOLEAN :
        IF ~ok
        THEN /\ report' = "null"
             /\ console' = << Txt("Error opening report file") >>
             /\ pc' = "sleep"
             /\ UNCHANGED file
        ELSE /\ report' = "file"
             /\ console' = <<>>
             /\ file' = file \o Timestamp
             /\ pc' = "pollTemp"
    /\ UNCHANGED << prog, useMux, i2cfd, exitStatus, bound, muxReg, cycle,
                    port, raw, nullWrites >>

\* Lines 165-166: pollTemp(i2cfd, report); fprintf(report, ",")
CyclePollTemp ==
    /\ prog = "logger" /\ pc = "pollTemp"
    /\ \E io \in IoSet(1, 2, TempBufs) :
        Apply(pollTemp(i2cfd, report, bound, io), << Sep >>)
    /\ pc' = "throwaway"
    /\ UNCHANGED << prog, useMux, i2cfd, exitStatus, report, cycle, port, raw >>

\* Line 168: pollPH(i2cfd, NULL)
CycleThrowaway ==
    /\ prog = "logger" /\ pc = "throwaway"
    /\ \E io \in IoSet(2, 4, PhBufs) :
        Apply(pollPH(i2cfd, "null", bound, io), <<>>)
    /\ pc' = "usleep"
    /\ UNCHANGED << prog, useMux, i2cfd, exitStatus, report, cycle, port, raw >>

\* A delay that leaves out US_IN_MS: usleep(100).
DelayUsleepMicro ==
    /\ pc = "usleep"
    /\ busLog' = busLog \o << Usleep(100) >>
    /\ pc' = "pollPH"
    /\ UNCHANGED << prog, useMux, i2cfd, exitStatus, file, report, console,
                    bound, muxReg, cycle, port, raw, nullWrites >>

\* Line 169 (and the pH tool's line 334): usleep(100 * US_IN_MS)
DelayUsleep ==
    /\ pc = "usleep"
    /\ busLog' = busLog \o << Usleep(100 * US_IN_MS) >>
    /\ pc' = "pollPH"
    /\ UNCHANGED << prog, useMux, i2cfd, exitStatus, file, report, console,
                    bound, muxReg, cycle, port, raw, nullWrites >>

\* Lines 170-171: pollPH(i2cfd, report); fprintf(report, ",")
CyclePollPH ==
    /\ prog = "logger" /\ pc = "pollPH"
    /\ \E io \in IoSet(2, 4, PhBufs) :
        Apply(pollPH(i2cfd, report, bound, io), << Sep >>)
    /\ pc' = "pollSHT30"
    /\ UNCHANGED << prog, useMux, i2cfd, exitStatus, report, cycle, port, raw >>

\* Lines 173-175: pollSHT30(i2cfd, report); fprintf(report, "\n"); fclose
CyclePollSHT30 ==
    /\ prog = "logger" /\ pc = "pollSHT30"
    /\ \E io \in ShtIoSet :
        LET r == pollSHT30(i2cfd, report, bound, io)
        IN  IF r.abort
            THEN Killed(r)
            ELSE /\ Apply(r, << Nl >>)
                 /\ pc' = "sleep"
                 /\ report' = "none"
                 /\ UNCHANGED << exitStatus, port >>
    /\ UNCHANGED << prog, useMux, i2cfd, cycle, raw >>

\* Line 181: sleep(reportingInterval * 60), then round the loop again.
CycleSleep ==
    /\ pc = "sleep"
    /\ cycle < MaxCycles
    /\ cycle' = cycle + 1
    /\ pc' = "loop"
    /\ UNCHANGED << prog, useMux, i2cfd, exitStatus, file, report, console,
                    busLog, bound, muxReg, port, raw, nullWrites >>

\* -------------------------------------------------------------- the tools

\* exit(0)
Exit0 ==
    /\ pc' = "exited"
    /\ exitStatus' = 0

\* The state after selectMUXport returned r, apart from pc and port.
MuxSelected(r) ==
    /\ file' = file
    /\ console' = console \o << Txt("Sensor on port"), NumD(port) >> \o r.con
    /\ busLog' = busLog \o r.log
    /\ bound' = r.bound
    /\ muxReg' = MuxAfter(r.log)

\* A loop that stops at the first port whose select fails (break).
MuxSelectBreaks ==
    /\ pc = "muxLoop"
    /\ port < LAST_PORT
    /\ \E io \in IoSet(1, 0, {<<>>}) :
        LET r == selectMUXport(i2cfd, port, bound, io)
        IN  /\ MuxSelected(r)
            /\ IF r.ret = 0
               THEN pc' = "muxPoll" /\ port' = port
               ELSE pc' = "muxLoop" /\ port' = LAST_PORT
    /\ UNCHANGED << prog, useMux, i2cfd, exitStatus, report, cycle, raw,
                    nullWrites >>

\* A loop that polls the sensor whatever selectMUXport returned.
MuxSelectUnchecked ==
    /\ pc = "muxLoop"
    /\ port < LAST_PORT
    /\ \E io \in IoSet(1, 0, {<<>>}) :
        LET r == selectMUXport(i2cfd, port, bound, io)
        IN  /\ MuxSelected(r)
            /\ pc' = "muxPoll" /\ port' = port
    /\ UNCHANGED << prog, useMux, i2cfd, exitStatus, report, cycle, raw,
                    nullWrites >>

\* A loop that runs up to and including LAST_PORT (port <= LAST_PORT).
MuxSelectInclusive ==
    /\ pc = "muxLoop"
    /\ port <= LAST_PORT
    /\ \E io \in IoSet(1, 0, {<<>>}) :
        LET r == selectMUXport(i2cfd, port, bound, io)
        IN  /\ MuxSelected(r)
            /\ IF r.ret = 0
               THEN pc' = "muxPoll" /\ port' = port
               ELSE pc' = "muxLoop" /\ port' = port + 1
    /\ UNCHANGED << prog, useMux, i2cfd, exitStatus, report, cycle, raw,
                    nullWrites >>

\* SHT30 tool, lines 59-62: the loop test, printf and selectMUXport.
MuxSelect ==
    /\ pc = "muxLoop"
    /\ port < LAST_PORT
    /\ \E io \in IoSet(1, 0, {<<>>}) :
        LET r == selectMUXport(i2cfd, port, bound, io)
        IN  /\ MuxSelected(r)
            /\ IF r.ret = 0
               THEN pc' = "muxPoll" /\ port' = port
               ELSE pc' = "muxLoop" /\ port' = port + 1
    /\ UNCHANGED << prog, useMux, i2cfd, exitStatus, report, cycle, raw,
                    nullWrites >>

\* SHT30 tool, line 64, and the loop's port++.
MuxPoll ==
    /\ pc = "muxPoll"
    /\ \E io \in ShtIoSet :
        LET r == pollSHT30_tool(i2cfd, bound, io)
        IN  IF r.abort
            THEN Killed(r)
            ELSE /\ Apply(r, <<>>)
                 /\ port' = port + 1
                 /\ pc' = "muxLoop"
                 /\ UNCHANGED << exitStatus, report >>
    /\ UNCHANGED << prog, useMux, i2cfd, cycle, raw >>

\* SHT30 tool, lines 59 and 71: the loop ends; exit(0).
MuxDone ==
    /\ pc = "muxLoop"
    /\ ~(port < LAST_PORT)
    /\ Exit0
    /\ UNCHANGED << prog, useMux, i2cfd, file, report, console, busLog, bound,
                    muxReg, cycle, port, raw, nullWrites >>

\* SHT30 tool without USE_MUX, lines 68-71.
ToolPollSHT30 ==
    /\ prog = "sht30" /\ pc = "pollSHT30"
    /\ \E io \in ShtIoSet :
        LET r == pollSHT30_tool(i2cfd, bound, io)
        IN  IF r.abort
            THEN Killed(r)
            ELSE /\ Apply(r, <<>>)
                 /\ Exit0
                 /\ UNCHANGED << report, port >>
    /\ UNCHANGED << prog, useMux, i2cfd, cycle, raw >>

\* Temperature tool, lines 192-194.
ToolPollTemp ==
    /\ prog = "temp" /\ pc = "pollTemp"
    /\ \E io \in IoSet(1, 2, TempBufs) :
        Apply(pollTemp_tool(i2cfd, bound, io), <<>>)
    /\ Exit0
    /\ UNCHANGED << prog, useMux, i2cfd, report, cycle, port, raw >>

\* pH tool, line 333: pollPH(i2cfd), the result dropped.
ToolThrowaway ==
    /\ prog = "ph" /\ pc = "throwaway"
    /\ \E io \in IoSet(2, 4, PhBufs) :
        Apply(pollPH_tool(i2cfd, bound, io), <<>>)
    /\ pc' = "usleep"
    /\ UNCHANGED << prog, useMux, i2cfd, exitStatus, report, cycle, port, raw >>

\* pH tool, lines 339-342: what main prints for raw.
PhReport(r) ==
    << Txt("raw ="), NumU32(r), Sep, Txt("voltage ="), VoltageFmt(r), Nl,
       Txt("pH ="), PhToolFmt(r), Nl >>

\* pH tool, lines 335-344: raw = pollPH(i2cfd), convert, print, exit(0).
ToolPollPH ==
    /\ prog = "ph" /\ pc = "pollPH"
    /\ \E io \in IoSet(2, 4, PhBufs) :
        LET r == pollPH_tool(i2cfd, bound, io)
        IN  /\ raw' = r.ret
            /\ file' = file
            /\ console' = console \o r.con \o PhReport(r.ret)
            /\ busLog' = busLog \o r.log
            /\ bound' = r.bound
            /\ muxReg' = MuxAfter(r.log)
    /\ Exit0
    /\ UNCHANGED << prog, useMux, i2cfd, report, cycle, port, nullWrites >>

Next ==
    \/ OpenBus
    \/ Startup
    \/ CycleOpen
    \/ CyclePollTemp
    \/ CycleThrowaway
    \/ DelayUsleep
    \/ CyclePollPH
    \/ CyclePollSHT30
    \/ CycleSleep
    \/ MuxSelect
    \/ MuxPoll
    \/ MuxDone
    \/ ToolPollSHT30
    \/ ToolPollTemp
    \/ ToolThrowaway
    \/ ToolPollPH

Spec == Init /\ [][Next]_vars

\* ------------------------------------------------- the drivers on their own

\* Each driver called once on an open handle, the bus answering every
\* operation in full, over the range of the response bytes: the conversions
\* of Monitor.cpp and of the tools as functions of the response.

Bytes == 0..255

\* Bytes at the ends and in the middle of the range.
SampleBytes == {0, 1, 127, 128, 255}

\* The ports selectMUXport is written for: "The port number is 0 to 7".
MUX_PORTS == 0..7

\* The kernel's answers when nothing fails.
FullIo(nw, nr, buf) == [sel |-> 0, wr |-> nw, rd |-> nr, buf |-> buf]

\* Six-byte responses of the SHT30: temperature, CRC, humidity, CRC.
BenchShtBufs ==
    { << t1, t2, c1, h1, h2, c2 >> :
        t1 \in SampleBytes, t2 \in SampleBytes, c1 \in {0, 9},
        h1 \in SampleBytes, h2 \in SampleBytes, c2 \in {0, 5} }

\* main has opened the bus (and, the logger, its report) and is about to
\* call a driver.
BenchInit ==
    /\ prog \in Progs
    /\ useMux = (prog = "sht30")
    /\ pc = "driver"
    /\ i2cfd = 3
    /\ exitStatus = -1
    /\ file = <<>>
    /\ report = (IF prog = "logger" THEN "file" ELSE "none")
    /\ console = <<>>
    /\ busLog = <<>>
    /\ bound = NoAddr
    /\ muxReg = 0
    /\ cycle = 0
    /\ port = FIRST_PORT
    /\ raw = 0
    /\ nullWrites = 0

\* pollTemp of the logger and of the temperature tool.
BenchPollTemp ==
    /\ pc = "driver" /\ prog \in {"logger", "temp"}
    /\ \E hi \in Bytes, lo \in Bytes :
        LET io == FullIo(1, 2, << hi, lo >>)
        IN  Apply(IF prog = "logger" THEN pollTemp(i2cfd, report, bound, io)
                  ELSE pollTemp_tool(i2cfd, bound, io), <<>>)
    /\ pc' = "returned"
    /\ UNCHANGED << prog, useMux, i2cfd, exitStatus, report, cycle, port, raw >>

\* pollPH of the logger; pollPH of the pH tool and main's conversion of raw.
BenchPollPH ==
    /\ pc = "driver" /\ prog \in {"logger", "ph"}
    /\ \E b \in Bytes, rest \in { << 0, 0, 0 >>, << 1, 2, 3 >> } :
        LET io == FullIo(2, 4, << b >> \o rest)
        IN  IF prog = "logger"
            THEN /\ Apply(pollPH(i2cfd, report, bound, io), <<>>)
                 /\ raw' = raw
            ELSE LET r == pollPH_tool(i2cfd, bound, io)
                 IN  /\ Apply([r EXCEPT !.con = r.con \o PhReport(r.ret)], <<>>)
                     /\ raw' = r.ret
    /\ pc' = "returned"
    /\ UNCHANGED << prog, useMux, i2cfd, exitStatus, report, cycle, port >>

\* pollSHT30 of the logger and of the SHT30 tool.
BenchPollSHT30 ==
    /\ pc = "driver" /\ prog \in {"logger", "sht30"}
    /\ \E buf \in BenchShtBufs, ub \in SmashOutcomes :
        LET io == [sel |-> 0, wr |-> 2, rd |-> 6, buf |-> buf, ub |-> ub]
            r == IF prog = "logger" THEN pollSHT30(i2cfd, report, bound, io)
                 ELSE pollSHT30_tool(i2cfd, bound, io)
        IN  IF r.abort
            THEN Killed(r)
            ELSE /\ Apply(r, <<>>)
                 /\ pc' = "returned"
                 /\ UNCHANGED << exitStatus, report, port >>
    /\ UNCHANGED << prog, useMux, i2cfd, cycle, raw >>

\* selectMUXport of the SHT30 tool, for each port of the MUX.
BenchSelectMUX ==
    /\ pc = "driver" /\ prog = "sht30"
    /\ \E p \in MUX_PORTS :
        /\ Apply(selectMUXport(i2cfd, p, bound, FullIo(1, 0, <<>>)), <<>>)
        /\ port' = p
    /\ pc' = "returned"
    /\ UNCHANGED << prog, useMux, i2cfd, exitStatus, report, cycle, raw >>

BenchNext ==
    \/ BenchPollTemp
    \/ BenchPollPH
    \/ BenchPollSHT30
    \/ BenchSelectMUX

DriverSpec == BenchInit /\ [][BenchNext]_vars

\* ---------------------------------------------------- reading the history

\* Index of the first newline of text f, 0 if it has none.
FirstNl(f) ==
    IF \E i \in 1..Len(f) : f[i] = Nl
    THEN CHOOSE i \in 1..Len(f) : f[i] = Nl /\ \A j \in 1..(i - 1) : f[j] # Nl
    ELSE 0

\* The complete lines of text f, each without its newline.
RECURSIVE LinesOf(_)
LinesOf(f) ==
    IF FirstNl(f) = 0 THEN <<>>
    ELSE << SubSeq(f, 1, FirstNl(f) - 1) >> \o LinesOf(SubSeq(f, FirstNl(f) + 1, Len(f)))

\* The last complete line of a text that ends with a newline.
LastLine(f) ==
    LET nls == { i \in 1..(Len(f) - 1) : f[i] = Nl }
        from == IF nls = {} THEN 1 ELSE 1 + CHOOSE i \in nls : \A j \in nls : j <= i
    IN  SubSeq(f, from, Len(f) - 1)

\* Number of comma-separated fields of a line.
FieldCount(line) == Cardinality({ i \in 1..Len(line) : line[i] = Sep }) + 1

\* A line written by a poll cycle starts with the timestamp.
IsRecord(line) == Len(line) > 0 /\ line[1] = Timestamp[1]

\* A token that is a converted sensor value (a number printed with decimals).
IsValue(t) == t.k = "num" /\ t.s = "" /\ t.d > 0

ValueCount(text) == Cardinality({ i \in 1..Len(text) : IsValue(text[i]) })

\* Indices of the calls of driver drv in the bus history.
CallsOf(drv) == { i \in 1..Len(busLog) : busLog[i].op = "call" /\ busLog[i].drv = drv }

\* Index of the return of the call at index i (0 if it has not returned): a
\* call issues at most three bus operations before it returns.
DoneOf(i) ==
    LET js == { j \in (i + 1)..(i + 4) : j <= Len(busLog) /\ busLog[j].op = "done" }
    IN  IF js = {} THEN 0 ELSE CHOOSE j \in js : \A k \in js : j <= k

\* The call at index i ran its whole transaction: its last bus operation is
\* a read that returned every byte asked for.
Completed(i) ==
    /\ DoneOf(i) > i + 1
    /\ busLog[DoneOf(i) - 1].op = "read"
    /\ busLog[DoneOf(i) - 1].got = busLog[DoneOf(i) - 1].n

\* The response bytes of a completed call.
BufOf(i) == busLog[DoneOf(i) - 1].buf

\* The logger's two pH polls of the current cycle.
Throwaways == { i \in CallsOf("pollPH") : busLog[i].got >= 0 /\ busLog[i].rep = "null" }
RealPolls == { i \in CallsOf("pollPH") : busLog[i].got >= 0 /\ busLog[i].rep = "file" }

\* ----------------------------------------------------------------- claims

\* C1 (as claimed): every record line a poll cycle appends to the report has
\* exactly as many comma-separated fields as the header line, whatever
\* combination of pollTemp, pollPH and pollSHT30 succeeds or fails.
C1_RecordFieldsMatchHeader ==
    \A i \in 1..Len(LinesOf(file)) :
        IsRecord(LinesOf(file)[i])
            => FieldCount(LinesOf(file)[i]) = FieldCount(LinesOf(HeaderLine)[1])

\* C2 (as claimed): in a logger cycle, whenever the real pH poll writes a pH
\* value to the record, the throwaway poll of the same cycle completed its
\* address-select, 2-byte write and 4-byte read, and a usleep of at least
\* 100 ms lies between the two polls.
C2_PhValueIsFresh ==
    prog = "logger" =>
        \A i \in RealPolls :
            (DoneOf(i) > 0 /\ ValueCount(busLog[DoneOf(i)].out) > 0)
                => \E j \in Throwaways :
                    /\ j < i
                    /\ Completed(j)
                    /\ \E u \in DoneOf(j)..i :
                        busLog[u].op = "usleep" /\ busLog[u].n >= 100 * 1000

\* The pH tool's two polls.
ToolPolls == CallsOf("pollPH")

\* The two pH polls of the run, when both have returned: <<first, second>>.
PhPair ==
    IF prog = "logger"
    THEN { <<j, i>> \in Throwaways \X RealPolls : j < i /\ DoneOf(i) > 0 }
    ELSE { <<j, i>> \in ToolPolls \X ToolPolls : j < i /\ DoneOf(i) > 0 }

\* C3: when both pH polls of a cycle get a response, the first poll writes
\* nothing to the record (the pH tool: its result is not what is converted)
\* and only the first byte of the second poll's 4-byte response feeds the pH
\* formula, in the logger and in the pH tool.
C3_SecondPollFeedsFormula ==
    \A q \in PhPair :
        (Completed(q[1]) /\ Completed(q[2])) =>
            /\ busLog[DoneOf(q[1])].out = <<>>
            /\ ValueCount(busLog[DoneOf(q[1])].con) = 0
            /\ prog = "logger" =>
                /\ busLog[DoneOf(q[2])].out = << PhFmt(BufOf(q[2])[1]) >>
                /\ (pc = "pollSHT30" =>
                        SubSeq(file, Len(file) - 1, Len(file))
                            = << PhFmt(BufOf(q[2])[1]), Sep >>)
            /\ prog = "ph" =>
                /\ raw = BufOf(q[2])[1]
                /\ console = PhReport(BufOf(q[2])[1])

\* C3 witness: a logger cycle whose two pH polls both completed and got
\* different first bytes, right after the second poll wrote its field.
C3_Witness ==
    /\ prog = "logger" /\ pc = "pollSHT30"
    /\ \E q \in PhPair :
        /\ Completed(q[1]) /\ Completed(q[2])
        /\ BufOf(q[1])[1] # BufOf(q[2])[1]

\* Bytes a complete read of each polling driver returns.
ExpectedLen(drv) ==
    IF drv = "pollTemp" THEN 2 ELSE IF drv = "pollPH" THEN 4 ELSE 6

\* Values a successful call of each polling driver emits.
ExpectedValues(drv) ==
    IF drv = "pollTemp" THEN 2 ELSE IF drv = "pollPH" THEN 1 ELSE 3

Pollers == {"pollTemp", "pollPH", "pollSHT30"}

\* Ends of the polling drivers' calls in the bus history: their returns, and
\* the end of a pollSHT30 that was killed after it had printed.
PollReturns ==
    { j \in 1..Len(busLog) :
        busLog[j].op \in {"done", "abort"} /\ busLog[j].drv \in Pollers }

\* What the call that returned at j emitted.
Emitted(j) == busLog[j].out \o busLog[j].con

\* The call that returned at j handed a reading back: it emitted a value, or
\* (the pH tool's pollPH) returned a byte.
GaveReading(j) ==
    \/ ValueCount(Emitted(j)) > 0
    \/ (prog = "ph" /\ busLog[j].got >= 0)

\* C4: a polling driver emits or returns numeric fields only if its read
\* returned exactly the expected byte count (2, 4 or 6); after a short read,
\* a failed write or a failed address-select it emits no numeric field, and a
\* reading is never partial.
C4_ReadingOnlyAfterFullRead ==
    \A j \in PollReturns :
        /\ GaveReading(j) =>
            /\ busLog[j - 1].op = "read"
            /\ busLog[j - 1].n = ExpectedLen(busLog[j].drv)
            /\ busLog[j - 1].got = ExpectedLen(busLog[j].drv)
        /\ ValueCount(Emitted(j)) \in {0, ExpectedValues(busLog[j].drv)}

\* C4 witness: a driver whose read came back one byte short has returned
\* without a reading.
C4_Witness ==
    \E j \in PollReturns :
        /\ busLog[j - 1].op = "read"
        /\ busLog[j - 1].got = busLog[j - 1].n - 1
        /\ ~GaveReading(j)

\* C5 (as claimed): the pH tool converts and prints a pH only for a raw byte
\* in 0..255 returned by a second poll that succeeded; when that poll fails
\* no pH value is printed.
C5_NoPhAfterFailedPoll ==
    (prog = "ph" /\ pc = "exited" /\ exitStatus = 0) =>
        \/ /\ raw \in 0..255
           /\ \E q \in PhPair : Completed(q[2])
        \/ ~\E i \in 1..Len(console) : console[i] = Txt("pH =")

\* An entry of the bus history that is a poll call (a call that was given
\* the handle) or a usleep.
IsStep(e) == e.op = "usleep" \/ (e.op = "call" /\ e.got >= 0)

\* The poll calls of the bus history as <<driver, report>> pairs in program
\* order, with the usleeps between them.
Skeleton(log) ==
    LET steps == SelectSeq(log, IsStep)
    IN  [k \in 1..Len(steps) |-> << steps[k].drv, steps[k].rep >>]

\* The skeleton of a whole logger cycle.
CycleSkeleton ==
    << << "pollTemp", "file" >>, << "pollPH", "null" >>, << "main", "none" >>,
       << "pollPH", "file" >>, << "pollSHT30", "file" >> >>

\* How much of it has run when main is at each statement of the cycle.
SkeletonAt(p) ==
    IF p = "pollTemp" THEN 0 ELSE IF p = "throwaway" THEN 1
    ELSE IF p = "usleep" THEN 2 ELSE IF p = "pollPH" THEN 3
    ELSE IF p = "pollSHT30" THEN 4 ELSE 5

\* main is inside a cycle whose report file opened, or has just finished it.
InOpenedCycle ==
    /\ prog = "logger"
    /\ \/ pc \in {"pollTemp", "throwaway", "usleep", "pollPH", "pollSHT30"}
       \/ (pc = "sleep" /\ report = "none")

\* The text a logger driver writes for response bytes b.
ValuesOf(drv, b) ==
    IF drv = "pollTemp" THEN << PctC(b), Sep, PctF(b) >>
    ELSE IF drv = "pollPH" THEN << PhFmt(b[1]) >>
    ELSE << ShtC(b), Sep, ShtF(b), Sep, ShtH(b), Txt("%") >>

\* The text the logger's call at index i must have written, given only that
\* call's own bus operations.
OwnText(i) ==
    IF busLog[i].rep = "file" /\ Completed(i)
    THEN ValuesOf(busLog[i].drv, BufOf(i)) ELSE <<>>

\* The logger's poll calls that have returned.
ReturnedPolls ==
    { i \in 1..Len(busLog) :
        busLog[i].op = "call" /\ busLog[i].got >= 0 /\ DoneOf(i) > 0 }

\* C6: in a logger cycle a failed sensor poll neither aborts the cycle nor
\* invalidates the handle: main goes on to every later poll with the same
\* open handle, each poll attempts its own address-select, and what a poll
\* writes depends only on the bytes of its own response.
C6_FailureIsLocal ==
    InOpenedCycle =>
        /\ exitStatus = -1 /\ i2cfd > 0
        /\ Skeleton(busLog) = SubSeq(CycleSkeleton, 1, SkeletonAt(pc))
        /\ \A i \in ReturnedPolls :
            /\ busLog[i].got = i2cfd
            /\ busLog[i + 1].op = "ioctl" /\ busLog[i + 1].drv = busLog[i].drv
            /\ busLog[DoneOf(i)].out = OwnText(i)
        /\ pc = "sleep" =>
            LET t == CHOOSE i \in CallsOf("pollTemp") : TRUE
                r == CHOOSE i \in RealPolls : TRUE
                h == CHOOSE i \in CallsOf("pollSHT30") : TRUE
                last == LastLine(file)
            IN  last = Timestamp \o OwnText(t) \o << Sep >> \o OwnText(r)
                       \o << Sep >> \o OwnText(h)

\* The SHT30 tool's selectMUXport calls, and the port each was given.
Selects == CallsOf("selectMUXport")

\* The tool built with USE_MUX has left its loop and exited.
MuxRunOver == prog = "sht30" /\ useMux /\ pc = "exited" /\ exitStatus = 0

\* C7: in mux mode a selectMUXport that fails (address-select or write) does
\* not stop the loop: every later port of the range is still selected in
\* the same run, and the loop goes straight on to the next port.
C7_SelectFailureContinues ==
    (prog = "sht30" /\ useMux) =>
        \A i \in Selects :
            (DoneOf(i) > 0 /\ busLog[DoneOf(i)].got # 0) =>
                /\ (pc = "exited" /\ exitStatus = 0) => port = LAST_PORT
                /\ DoneOf(i) = Len(busLog) =>
                    /\ port = busLog[i].n + 1
                    /\ pc = (IF port < LAST_PORT \/ exitStatus < 0
                             THEN "muxLoop" ELSE "exited")
                /\ MuxRunOver =>
                    \A p \in (busLog[i].n + 1)..(LAST_PORT - 1) :
                        \E k \in Selects : k > i /\ busLog[k].n = p

\* C7 witness: the run is over, the select of the first port failed and the
\* last port of the range was still selected.
C7_Witness ==
    /\ MuxRunOver
    /\ \E i \in Selects :
        /\ busLog[i].n = FIRST_PORT
        /\ busLog[DoneOf(i)].got # 0
    /\ \E k \in Selects : busLog[k].n = LAST_PORT - 1

\* C8: in mux mode the sensor is polled only directly after a selectMUXport
\* that returned success for the port of the same iteration, with no bus
\* operation in between, and the MUX then holds that port's channel; after
\* a failed select the next thing on the bus is the select of the next
\* port, never a poll.
C8_PollOnlyAfterSelect ==
    (prog = "sht30" /\ useMux) =>
        /\ \A i \in CallsOf("pollSHT30") :
            /\ i > 1
            /\ busLog[i - 1].op = "done"
            /\ busLog[i - 1].drv = "selectMUXport"
            /\ busLog[i - 1].got = 0
        /\ \A i \in Selects :
            (DoneOf(i) > 0 /\ DoneOf(i) < Len(busLog)) =>
                LET nxt == busLog[DoneOf(i) + 1]
                IN  IF busLog[DoneOf(i)].got = 0
                    THEN nxt.op = "call" /\ nxt.drv = "pollSHT30"
                    ELSE nxt.op = "call" /\ nxt.drv = "selectMUXport"
                         /\ nxt.n = busLog[i].n + 1
        /\ pc = "muxPoll" =>
            /\ busLog[Len(busLog)].op = "done"
            /\ busLog[Len(busLog)].drv = "selectMUXport"
            /\ busLog[Len(busLog)].got = 0
            /\ muxReg = 2 ^ port

\* C8 witness: one select failed and was followed by the next select, and a
\* later select succeeded and was followed by the poll.
C8_Witness ==
    /\ prog = "sht30" /\ useMux
    /\ \E i \in Selects :
        /\ DoneOf(i) > 0 /\ DoneOf(i) < Len(busLog)
        /\ busLog[DoneOf(i)].got # 0
        /\ busLog[DoneOf(i) + 1].drv = "selectMUXport"
    /\ \E i \in CallsOf("pollSHT30") : busLog[i - 1].drv = "selectMUXport"

\* The bus operations of the call at index i, in order.
OpsOf(i) == [k \in 1..(DoneOf(i) - i - 1) |-> busLog[i + k].op]

\* The whole of a logger cycle: each driver called once, pH twice with the
\* delay between, in the fixed order, and no bus operation issued twice
\* within a call.
WholeCycle ==
    /\ Skeleton(busLog) = CycleSkeleton
    /\ \A u \in 1..Len(busLog) :
        busLog[u].op = "usleep" => busLog[u].n >= 100 * 1000
    /\ \A i \in ReturnedPolls :
        /\ OpsOf(i) = SubSeq(<< "ioctl", "write", "read" >>, 1, Len(OpsOf(i)))
        /\ \A k \in (i + 1)..(DoneOf(i) - 1) : busLog[k].drv = busLog[i].drv

\* C9 (as claimed): every logger cycle polls the ambient temperature, the pH
\* throwaway, waits at least 100 ms, polls the pH for real and then the
\* combo device; each driver once (pH twice), nothing retried.
C9_EveryCyclePollsAll ==
    (prog = "logger" /\ pc = "sleep") => WholeCycle

\* C9 (amended): the same, for every logger cycle whose report file opened,
\* whether the cycle ran to its sleep or the process was killed at the end
\* of pollSHT30.
C9_OpenedCyclePollsAll ==
    /\ (prog = "logger" /\ pc = "sleep" /\ report = "none") => WholeCycle
    /\ (prog = "logger" /\ pc = "exited" /\ exitStatus = SIGABRT_STATUS)
            => WholeCycle

\* C9 witness: the second cycle has run in full, pollTemp included, after a
\* first cycle whose record shows that pollTemp failed (the timestamp is
\* followed by the bare separator).
C9_Witness ==
    /\ prog = "logger" /\ pc = "sleep" /\ report = "none" /\ cycle = 1
    /\ WholeCycle
    /\ \E n \in 1..(Len(LinesOf(file)) - 1) :
        LET l == LinesOf(file)[n]
        IN  IsRecord(l) /\ l[Len(Timestamp) + 1] = Sep
    /\ \E i \in CallsOf("pollTemp") : ~Completed(i)

\* C10 (as claimed): the logger exits only when opening the bus device
\* failed, with status 1 and before any bus transaction or record output.
C10_ExitOnlyOnOpenFailure ==
    (prog = "logger" /\ pc = "exited") =>
        /\ i2cfd < 0
        /\ exitStatus = 1
        /\ busLog = <<>>
        /\ file \in InitialFiles

\* ----------------------------------------------- claims on the conversions

\* The call the driver bench has made: its last entry (the return, or the
\* kill), the bytes its read returned, and the numbers it emitted.
BenchEnd == busLog[Len(busLog)]

BenchResponse == busLog[Len(busLog) - 1].buf

BenchValues == SelectSeq(BenchEnd.out \o BenchEnd.con, IsValue)

BenchCalled(drv) == busLog # <<>> /\ busLog[1].drv = drv

\* The three values the claimed formulas give for a response, at two
\* decimals: -45 + 175 t / 65536, -49 + 315 t / 65536, 100 h / 65536 with
\* t and h the big-endian words of bytes 0, 1 and 3, 4.
ClaimedSht(b) ==
    LET t == b[1] * 256 + b[2]
        h == b[4] * 256 + b[5]
    IN  << Fmt(175 * t - 45 * 65536, 65536, 2),
           Fmt(315 * t - 49 * 65536, 65536, 2),
           Fmt(100 * h, 65536, 2) >>

\* C11 (as claimed): the values pollSHT30 emits are the claimed functions of
\* bytes 0, 1, 3 and 4 of the response it read; for the response
\* 00 00 00 80 00 00 they are -45.00, -49.00 and 50.00.
C11_ShtValuesFromResponse ==
    BenchCalled("pollSHT30") =>
        /\ BenchValues = ClaimedSht(BenchResponse)
        /\ (BenchResponse \in { << 0, 0, c1, 128, 0, c2 >> : c1 \in Bytes, c2 \in Bytes })
            => BenchValues = << Num(TRUE, 4500, 2), Num(TRUE, 4900, 2),
                                Num(FALSE, 5000, 2) >>

\* The ambient-temperature response as the claim reads it, and 1280 times
\* the exact Fahrenheit value: 1280 (raw / 256 * 1.8 + 32) = 9 raw + 40960.
ClaimedRaw(b) == b[1] * 256 + b[2]

ExactF1280(b) == 9 * ClaimedRaw(b) + 40960

\* What pollTemp emitted is raw / 256 at one decimal, then a Fahrenheit
\* value; raw = 0x1900 gives 25.0 and 77.0.
PctEmitted ==
    /\ Len(BenchValues) = 2
    /\ BenchValues[1] = Fmt(ClaimedRaw(BenchResponse), 256, 1)
    /\ BenchValues[2] = PctF(BenchResponse)
    /\ BenchResponse = << 25, 0 >>
        => BenchValues = << Num(FALSE, 250, 1), Num(FALSE, 770, 1) >>

\* C12 (as claimed): for every 2-byte response celsius is raw / 256 and
\* fTemp, the float that is printed, equals celsius * 1.8 + 32 exactly.
C12_FahrenheitExact ==
    BenchCalled("pollTemp") =>
        /\ PctEmitted
        /\ 5 * PctFMant(BenchResponse)
            = PctFBinade(BenchResponse) * ExactF1280(BenchResponse)

\* C12 (amended): celsius is raw / 256; fTemp is celsius * 1.8 + 32 rounded
\* to the nearest float (within half a unit of its last place, and exact
\* when raw is a multiple of 5), so that the value printed is within 0.05 of
\* the exact one.
C12_FahrenheitNearestFloat ==
    BenchCalled("pollTemp") =>
        LET b == BenchResponse
            err == 5 * PctFMant(b) - PctFBinade(b) * ExactF1280(b)
        IN  /\ PctEmitted
            /\ 2 * Abs(err) < 5
            /\ PctFMant(b) < 16777216
            /\ (ClaimedRaw(b) % 5 = 0 => err = 0)
            /\ Abs(128 * BenchValues[2].v - ExactF1280(b)) <= 64

\* C12 witness: pollTemp has converted raw = 64, whose exact Fahrenheit
\* value 32.45 is no float; 32.5 was printed.
C12_Witness ==
    /\ BenchCalled("pollTemp")
    /\ BenchResponse = << 0, 64 >>
    /\ 5 * PctFMant(BenchResponse)
        # PctFBinade(BenchResponse) * ExactF1280(BenchResponse)
    /\ BenchValues = << Num(FALSE, 2, 1), Num(FALSE, 325, 1) >>

\* The ADC sample the bench's pollPH read is 128 (0x80).
Sample128 == BenchCalled("pollPH") /\ BenchResponse[1] = 128

\* C13 (as claimed): for raw byte 128 the voltage is 1.6588 and the pH is
\* 9.2 at one decimal (the logger's field), about 9.20 (the pH tool's).
C13_Raw128Voltage16588 ==
    Sample128 =>
        /\ VoltageE6(128) \div 100 = 16588
        /\ prog = "logger" => BenchValues = << Num(FALSE, 92, 1) >>
        /\ prog = "ph" =>
            /\ console[5] = Num(FALSE, 16588, 4)
            /\ console[8] = Num(FALSE, 920, 2)

\* C13 (amended): for raw byte 128 the voltage is 128 * 3.3 / 255 = 1.656471
\* and the pH is 9.2477 (to four decimals): 9.2 at one decimal (the logger's
\* field), 1.6565 and 9.25 at the decimals the pH tool's output is carried to.
C13_Raw128Voltage16565 ==
    Sample128 =>
        /\ VoltageE6(128) = 1656471
        /\ RoundEven(PhE6(128), 100) = 92477
        /\ prog = "logger" => BenchValues = << Num(FALSE, 92, 1) >>
        /\ prog = "ph" =>
            /\ raw = 128
            /\ console[2] = NumU32(128)
            /\ console[5] = Num(FALSE, 16565, 4)
            /\ console[8] = Num(FALSE, 925, 2)

\* C13 witness: the pH tool has read the sample 128 and printed its lines.
C13_Witness ==
    /\ Sample128 /\ prog = "ph" /\ pc = "returned"
    /\ Len(console) = 9 /\ console[7] = Txt("pH =")

\* ------------------------------------------------ claims on the protocol

\* The fixed address of the device each driver talks to.
DeviceAddr(drv) ==
    IF drv = "pollTemp" THEN 55             \* 0x37
    ELSE IF drv = "pollPH" THEN 72          \* 0x48
    ELSE IF drv = "pollSHT30" THEN 68       \* 0x44
    ELSE 112                                \* 0x70, selectMUXport

\* The bus operation at index i of the bus history was issued in its place:
\* the address-select first in its call and for the driver's own address, a
\* write directly after the address-select succeeded, a read directly after
\* the whole command was written, all within one call.
InProtocolOrder(i) ==
    LET e == busLog[i]
        prev == busLog[i - 1]
    IN  /\ i > 1
        /\ prev.drv = e.drv
        /\ e.addr = DeviceAddr(e.drv)
        /\ e.op = "ioctl" => prev.op = "call" /\ prev.got >= 0
        /\ e.op = "write" =>
            prev.op = "ioctl" /\ prev.got >= 0 /\ prev.addr = DeviceAddr(e.drv)
        /\ e.op = "read" => prev.op = "write" /\ prev.got = prev.n

\* The bus operation at index i failed: a refused address-select, a write
\* or a read that did not transfer every byte.
StepFailed(i) ==
    IF busLog[i].op = "ioctl" THEN busLog[i].got < 0
    ELSE busLog[i].got # busLog[i].n

BusOps == { i \in 1..Len(busLog) : busLog[i].op \in {"ioctl", "write", "read"} }

\* C14: in every driver call the steps run address-select, write, read, each
\* only after the one before it succeeded in the same call; after the first
\* failing step the call issues no further bus operation; and the handle is
\* bound to the device's address at every write and read.
C14_SelectWriteReadInOrder ==
    /\ \A i \in BusOps :
        /\ InProtocolOrder(i)
        /\ (StepFailed(i) /\ i < Len(busLog)) => busLog[i + 1].op = "done"
    /\ (busLog # <<>> /\ busLog[Len(busLog)].op \in {"done", "abort"}
            /\ busLog[Len(busLog) - 1].op \in {"write", "read"}
            /\ ~StepFailed(Len(busLog) - 1))
        => bound = DeviceAddr(busLog[Len(busLog)].drv)

\* C14 witness: a call whose write failed has returned without a read, and
\* an earlier call of the same history ran all three steps.
C14_Witness ==
    /\ \E i \in BusOps :
        /\ busLog[i].op = "write" /\ StepFailed(i)
        /\ i < Len(busLog) /\ busLog[i + 1].op = "done"
    /\ \E i \in BusOps : busLog[i].op = "read" /\ ~StepFailed(i)

\* The bits set in a byte.
BitsOf(x) == { k \in 0..7 : (x \div (2 ^ k)) % 2 = 1 }

\* C15: for every channel in 0..7 selectMUXport writes exactly one byte, of
\* value 1 << channel: it fits in 8 bits, is not zero and its only set bit
\* is bit number channel (so distinct channels give distinct bytes), and
\* after the select the MUX holds that byte.
C15_OneBitPerChannel ==
    BenchCalled("selectMUXport") =>
        LET channel == busLog[1].n
            w == busLog[3]
        IN  /\ channel \in 0..7
            /\ w.op = "write" /\ w.n = 1 /\ w.got = 1 /\ Len(w.buf) = 1
            /\ w.buf[1] \in 1..255
            /\ BitsOf(w.buf[1]) = {channel}
            /\ muxReg = w.buf[1]
            /\ Cardinality({ i \in 1..Len(busLog) : busLog[i].op = "write" }) = 1

\* C15 witness: channel 7 was selected with the byte 0x80.
C15_Witness ==
    /\ BenchCalled("selectMUXport")
    /\ busLog[1].n = 7
    /\ busLog[3].buf = << 128 >>
    /\ muxReg = 128

\* ------------------------------------------------- claims on the report

\* How many complete lines of text f are the header, and how many are
\* records.
HeaderLines(f) ==
    Cardinality({ i \in 1..Len(LinesOf(f)) : LinesOf(f)[i] \o << Nl >> = HeaderLine })

RecordLines(f) ==
    Cardinality({ i \in 1..Len(LinesOf(f)) : IsRecord(LinesOf(f)[i]) })

\* C16 (as claimed): the logger writes the header at most once, only at
\* startup and only into an empty file, so that it is the first line; no
\* step of the polling loop adds a header; and the cycle whose report file
\* opened, when it ends at pollSHT30, has appended exactly one record line.
C16_OneHeaderOneRecordPerCycle ==
    [][ prog = "logger" =>
          /\ HeaderLines(file') - HeaderLines(file)
                = (IF pc = "startup" /\ file = <<>> /\ file' # file THEN 1 ELSE 0)
          /\ HeaderLines(file') <= 1
          /\ HeaderLines(file') = 1 => LinesOf(file')[1] \o << Nl >> = HeaderLine
          /\ RecordLines(file') - RecordLines(file)
                = (IF pc = "pollSHT30" THEN 1 ELSE 0)
          /\ pc = "startup" => RecordLines(file) = 0
      ]_vars

\* The column names of the header.
ColumnNames ==
    { Txt("PCT_C"), Txt("PCT_F"), Txt("pH"), Txt("TempC"), Txt("TempF"),
      Txt("Humidity") }

\* Text made of column names and the commas between them.
OnlyColumnNames(text) ==
    /\ text # <<>>
    /\ \A k \in 1..Len(text) : text[k] \in ColumnNames \cup {Sep}

NoColumnName(text) == \A k \in 1..Len(text) : text[k] \notin ColumnNames

\* All calls of the bus history.
Calls == { i \in 1..Len(busLog) : busLog[i].op = "call" }

\* C17: a logger driver called with fd < 0 writes the column names and
\* nothing else and performs no bus operation; such calls are made at
\* startup only; past the open the handle is > 0, so every call of the
\* polling loop has a positive handle, starts with its address-select and
\* writes no column name.
C17_SentinelNeverMixes ==
    prog = "logger" =>
        /\ \A i \in Calls :
            IF busLog[i].got < 0
            THEN /\ busLog[i + 1].op = "done"
                 /\ OnlyColumnNames(busLog[i + 1].out)
                 /\ busLog[i + 1].con = <<>>
                 /\ pc = "loop" /\ cycle = 0
            ELSE /\ busLog[i].got > 0
                 /\ busLog[i].got = i2cfd
                 /\ busLog[i + 1].op = "ioctl"
                 /\ DoneOf(i) > 0 => NoColumnName(busLog[DoneOf(i)].out)
        /\ pc \notin {"open", "exited"} => i2cfd > 0
        /\ BusOps # {} => \A i \in Calls : busLog[i].got > 0

\* C17 witness: startup has just written the header through the three
\* calls with a negative handle, on an open bus.
C17_Witness ==
    /\ prog = "logger" /\ pc = "loop" /\ cycle = 0 /\ i2cfd > 0
    /\ Cardinality({ i \in Calls : busLog[i].got < 0 }) = 3
    /\ file = HeaderLine

\* The selectMUXport calls of the run, in program order.
IsSelectCall(e) == e.op = "call" /\ e.drv = "selectMUXport"

SelectCalls == SelectSeq(busLog, IsSelectCall)

\* C18: in mux mode the ports selected are FIRST_PORT, FIRST_PORT + 1, ...
\* in ascending order, each once, all below LAST_PORT: 0, 1 and 2 and never
\* 3 or 4..7; a run that leaves the loop and exits has selected all three.
C18_PortsBelowLastPort ==
    (prog = "sht30" /\ useMux) =>
        /\ \A k \in 1..Len(SelectCalls) :
            /\ SelectCalls[k].n = FIRST_PORT + k - 1
            /\ SelectCalls[k].n \in {0, 1, 2}
            /\ SelectCalls[k].n < LAST_PORT
        /\ (pc = "exited" /\ exitStatus = 0) =>
            [k \in 1..Len(SelectCalls) |-> SelectCalls[k].n] = << 0, 1, 2 >>
        /\ muxReg \in {0, 1, 2, 4}

\* C18 witness: the run is over after the selects of ports 0, 1 and 2, the
\* last of them accepted by the MUX.
C18_Witness ==
    /\ MuxRunOver
    /\ Len(SelectCalls) = 3
    /\ port = LAST_PORT
    /\ muxReg = 4

\* C19: no logger driver writes to a NULL report.  The header calls and
\* the polls of a cycle are made with the opened report; the one call made
\* with NULL is the throwaway pollPH, with a positive handle, and it writes
\* nothing to any report: what it can print is a diagnostic on the console
\* when one of its bus operations fails.
C19_NoWriteToNullReport ==
    prog = "logger" =>
        /\ nullWrites = 0
        /\ pc \in {"pollTemp", "throwaway", "usleep", "pollPH", "pollSHT30"}
               => report = "file"
        /\ \A i \in Calls :
            /\ busLog[i].rep \in {"file", "null"}
            /\ busLog[i].got < 0 => busLog[i].rep = "file"
            /\ busLog[i].rep = "null" =>
                /\ busLog[i].drv = "pollPH"
                /\ busLog[i].got > 0
                /\ DoneOf(i) # 0 =>
                    /\ busLog[DoneOf(i)].out = <<>>
                    /\ busLog[DoneOf(i)].con # <<>> => ~Completed(i)

\* C19 witness: a throwaway poll read its four bytes and returned, and the
\* pH poll after it wrote a value to the opened report.
C19_Witness ==
    /\ prog = "logger" /\ nullWrites = 0
    /\ \E i \in Throwaways : Completed(i) /\ busLog[DoneOf(i)].out = <<>>
    /\ \E i \in RealPolls : Completed(i) /\ busLog[DoneOf(i)].out # <<>>

\* C20: the step of a logger cycle whose fopen fails performs no bus
\* operation, leaves the report file, the bound address and the MUX alone
\* and goes to the sleep; the sleep is followed by the next cycle's fopen.
C20_FailedOpenSkipsCycle ==
    [][prog = "logger" =>
        /\ (pc = "loop" /\ report' = "null") =>
            /\ pc' = "sleep"
            /\ busLog' = <<>>
            /\ file' = file
            /\ bound' = bound /\ muxReg' = muxReg
            /\ console' = << Txt("Error opening report file") >>
        /\ (pc = "sleep" /\ report = "null") =>
            /\ pc' = "loop"
            /\ cycle' = cycle + 1
            /\ busLog' = <<>> /\ file' = file
      ]_vars

\* C20 witness: the first cycle could not open the report, recorded nothing
\* after the header and made no bus call; the logger slept and is at the
\* fopen of the next cycle.
C20_Witness ==
    /\ prog = "logger" /\ pc = "loop" /\ cycle = 1 /\ report = "null"
    /\ busLog = <<>>
    /\ file = HeaderLine

====
